---------------------------- MODULE Spec2Model ----------------------------
(***************************************************************************)
(* A model of resume_parser.py: one run of main() over one input path.     *)
(* Strings are sequences of one-character strings, so that strip, replace, *)
(* split, join and the substring test act on characters as Python's do.    *)
(***************************************************************************)
EXTENDS Naturals, Sequences, FiniteSets

VARIABLES
    input,        \* what file_path names: "missing", "corrupt" or "pdf"
    pages,        \* pdf.pages: the text each page's extract_text() yields
    pc,           \* position of the run inside main / parse_pdf_resume
    text,         \* parse_pdf_resume: text
    lines,        \* parse_pdf_resume: lines
    idx,          \* index in lines of the next line of the for loop
    section,      \* parse_pdf_resume: section
    resume_data,  \* the record built by parse_pdf_resume, passed on by main
    log,          \* the records emitted through logging, in order
    calls,        \* the functions main has invoked, in order
    stdout,       \* what print_resume has printed, one entry per print
    output_file   \* the file named by output_file

vars == <<input, pages, pc, text, lines, idx, section, resume_data, log,
          calls, stdout, output_file>>

---------------------------------------------------------------------------
(* Bounds of the explored inputs *)

\* the number of pieces (fragments and page breaks) of an enumerated document
MaxItems == 4

---------------------------------------------------------------------------
(* String literals of the program *)

NameLabel == <<"N", "a", "m", "e", ":">>
EmailLabel == <<"E", "m", "a", "i", "l", ":">>
EducationLabel == <<"E", "d", "u", "c", "a", "t", "i", "o", "n">>
ExperienceLabel == <<"E", "x", "p", "e", "r", "i", "e", "n", "c", "e">>
SkillsLabel == <<"S", "k", "i", "l", "l", "s">>

Newline == <<"\n">>

PersonalHeader == <<"\n", "P", "e", "r", "s", "o", "n", "a", "l", " ", "I", "n", "f", "o", "r", "m", "a", "t", "i", "o", "n", ":">>
NamePrefix == <<"N", "a", "m", "e", ":", " ">>
EmailPrefix == <<"E", "m", "a", "i", "l", ":", " ">>
EducationHeader == <<"\n", "E", "d", "u", "c", "a", "t", "i", "o", "n", ":">>
WorkHeader == <<"\n", "W", "o", "r", "k", " ", "E", "x", "p", "e", "r", "i", "e", "n", "c", "e", ":">>
SkillsHeader == <<"\n", "S", "k", "i", "l", "l", "s", ":">>
Bullet == <<"-", " ">>

\* the characters str.strip() removes
Whitespace == {" ", "\t", "\n", "\r", "\f"}

---------------------------------------------------------------------------
(* Python's string operations *)

\* sub in s
Contains(sub, s) ==
    \E i \in 1..(Len(s) + 1 - Len(sub)) : SubSeq(s, i, i + Len(sub) - 1) = sub

RECURSIVE LStrip(_)
LStrip(s) ==
    IF s # <<>> /\ Head(s) \in Whitespace THEN LStrip(Tail(s)) ELSE s

RECURSIVE RStrip(_)
RStrip(s) ==
    IF s # <<>> /\ s[Len(s)] \in Whitespace
    THEN RStrip(SubSeq(s, 1, Len(s) - 1))
    ELSE s

\* s.strip()
Strip(s) == RStrip(LStrip(s))

\* s.replace(old, new) for a non-empty old: the occurrences of old are
\* replaced from left to right, without overlap
RECURSIVE Replace(_, _, _)
Replace(s, old, new) ==
    IF Len(s) < Len(old) THEN s
    ELSE IF SubSeq(s, 1, Len(old)) = old
         THEN new \o Replace(SubSeq(s, Len(old) + 1, Len(s)), old, new)
         ELSE <<Head(s)>> \o Replace(Tail(s), old, new)

\* s.split(sep) for a one-character sep: always at least one element
RECURSIVE Split(_, _)
Split(s, sep) ==
    IF \E i \in 1..Len(s) : <<s[i]>> = sep
    THEN LET i == CHOOSE k \in 1..Len(s) :
                      /\ <<s[k]>> = sep
                      /\ \A j \in 1..(k - 1) : <<s[j]>> # sep
         IN  <<SubSeq(s, 1, i - 1)>> \o Split(SubSeq(s, i + 1, Len(s)), sep)
    ELSE <<s>>

\* sep.join(parts)
RECURSIVE Join(_, _)
Join(sep, parts) ==
    IF parts = <<>> THEN <<>>
    ELSE IF Len(parts) = 1 THEN parts[1]
    ELSE parts[1] \o sep \o Join(sep, Tail(parts))

---------------------------------------------------------------------------
(* The inputs: what the PDF library hands to the program *)

\* a page whose extract_text() yields None, and one that yields the string t
NonePage == [none |-> TRUE, text |-> <<>>]
TextPage(t) == [none |-> FALSE, text |-> t]

\* the truth value Python gives page.extract_text()
Truthy(page) == ~page.none /\ page.text # <<>>

PageBreak == <<"\f">>
Fragments ==
    { <<" ">>, <<"x">>, Newline,
      NameLabel, EmailLabel, EducationLabel, ExperienceLabel, SkillsLabel }
Items == Fragments \cup {PageBreak}

Documents == UNION { [1..n -> Items] : n \in 0..MaxItems }

\* the pages of an enumerated document: its pieces between page breaks
RECURSIVE PageTexts(_, _)
PageTexts(doc, cur) ==
    IF doc = <<>> THEN <<cur>>
    ELSE IF Head(doc) = PageBreak
         THEN <<cur>> \o PageTexts(Tail(doc), <<>>)
         ELSE PageTexts(Tail(doc), cur \o Head(doc))

PagesOf(doc) ==
    LET ts == PageTexts(doc, <<>>) IN [i \in 1..Len(ts) |-> TextPage(ts[i])]

SampleContact == <<"N", "a", "m", "e", ":", " ", "J", "a", "n", "e", " ", "D", "o", "e", "\n", "E", "m", "a", "i", "l", ":", " ", "j", "a", "n", "e", "@", "x", ".", "c", "o", "m">>
SampleSections == <<"E", "d", "u", "c", "a", "t", "i", "o", "n", "\n", "B", "S", " ", "C", "o", "m", "p", "u", "t", "e", "r", " ", "S", "c", "i", "e", "n", "c", "e", "\n", "E", "x", "p", "e", "r", "i", "e", "n", "c", "e", "\n", "E", "n", "g", "i", "n", "e", "e", "r", " ", "a", "t", " ", "A", "c", "m", "e">>
SampleVerbose == <<"S", "k", "i", "l", "l", "s", "\n", "C", "o", "n", "t", "i", "n", "u", "i", "n", "g", " ", "E", "d", "u", "c", "a", "t", "i", "o", "n", " ", "c", "o", "u", "r", "s", "e", "s", "\n", "P", "y", "t", "h", "o", "n">>

SamplePages ==
    { <<>>,
      <<NonePage>>,
      <<NonePage, NonePage>>,
      <<NonePage, TextPage(EducationLabel \o Newline \o <<"x">>)>>,
      <<TextPage(SkillsLabel), NonePage, TextPage(<<"x">>)>>,
      <<TextPage(SampleContact)>>,
      <<TextPage(SampleSections)>>,
      <<TextPage(SampleContact), TextPage(SampleSections)>>,
      <<TextPage(SampleVerbose)>> }

AllPages == { PagesOf(d) : d \in Documents } \cup SamplePages

---------------------------------------------------------------------------
(* parse_pdf_resume *)

InitialRecord ==
    [ personal_info |-> <<>>,
      education |-> <<>>,
      work_experience |-> <<>>,
      skills |-> <<>> ]

\* variant: the scan starts inside the education section
InitialSectionEducation == "education"

\* section = None
InitialSection == "none"

\* "\n".join(page.extract_text() for page in pdf.pages if page.extract_text())
ExtractText(ps) ==
    LET kept == SelectSeq(ps, Truthy)
    IN  Join(Newline, [i \in 1..Len(kept) |-> kept[i].text])

\* variant: the Skills test is made before the Education test
ClassifySkillsFirst(line) ==
    IF Contains(NameLabel, line) THEN "name"
    ELSE IF Contains(EmailLabel, line) THEN "email"
    ELSE IF Contains(SkillsLabel, line) THEN "skills"
    ELSE IF Contains(EducationLabel, line) THEN "education"
    ELSE IF Contains(ExperienceLabel, line) THEN "work_experience"
    ELSE "content"

\* variant: the Skills branch is missing
ClassifyNoSkills(line) ==
    IF Contains(NameLabel, line) THEN "name"
    ELSE IF Contains(EmailLabel, line) THEN "email"
    ELSE IF Contains(EducationLabel, line) THEN "education"
    ELSE IF Contains(ExperienceLabel, line) THEN "work_experience"
    ELSE "content"

\* the branch of the if / elif chain a stripped line takes
Classify(line) ==
    IF Contains(NameLabel, line) THEN "name"
    ELSE IF Contains(EmailLabel, line) THEN "email"
    ELSE IF Contains(EducationLabel, line) THEN "education"
    ELSE IF Contains(ExperienceLabel, line) THEN "work_experience"
    ELSE IF Contains(SkillsLabel, line) THEN "skills"
    ELSE "content"

\* variant: the remainder is not stripped
NameValueNoStrip(line) == Replace(line, NameLabel, <<>>)

NameValue(line) == Strip(Replace(line, NameLabel, <<>>))
EmailValue(line) == Strip(Replace(line, EmailLabel, <<>>))

\* d[key] = value on a dict
SetItem(d, key, value) ==
    [k \in (DOMAIN d) \cup {key} |-> IF k = key THEN value ELSE d[k]]

\* variant: the work_experience branch appends to skills
AppendContentWrongList(data, sec, line) ==
    IF sec = "education"
    THEN [data EXCEPT !.education = Append(@, line)]
    ELSE IF sec = "work_experience"
    THEN [data EXCEPT !.skills = Append(@, line)]
    ELSE IF sec = "skills"
    THEN [data EXCEPT !.skills = Append(@, line)]
    ELSE data

\* variant: the line is put at the front of the list
AppendContentPrepend(data, sec, line) ==
    IF sec = "education"
    THEN [data EXCEPT !.education = <<line>> \o @]
    ELSE IF sec = "work_experience"
    THEN [data EXCEPT !.work_experience = <<line>> \o @]
    ELSE IF sec = "skills"
    THEN [data EXCEPT !.skills = <<line>> \o @]
    ELSE data

\* variant: an empty line is skipped
AppendContentSkipBlank(data, sec, line) ==
    IF line = <<>> THEN data
    ELSE IF sec = "education"
    THEN [data EXCEPT !.education = Append(@, line)]
    ELSE IF sec = "work_experience"
    THEN [data EXCEPT !.work_experience = Append(@, line)]
    ELSE IF sec = "skills"
    THEN [data EXCEPT !.skills = Append(@, line)]
    ELSE data

\* the else branch: the line goes to the list of the current section
AppendContent(data, sec, line) ==
    IF sec = "education"
    THEN [data EXCEPT !.education = Append(@, line)]
    ELSE IF sec = "work_experience"
    THEN [data EXCEPT !.work_experience = Append(@, line)]
    ELSE IF sec = "skills"
    THEN [data EXCEPT !.skills = Append(@, line)]
    ELSE data

\* the section after one iteration of the loop
NextSection(rule, sec) ==
    IF rule \in {"education", "work_experience", "skills"} THEN rule ELSE sec

\* resume_data after one iteration of the loop on the stripped line
NextData(rule, data, sec, line) ==
    IF rule = "name"
    THEN [data EXCEPT !.personal_info = SetItem(@, "name", NameValue(line))]
    ELSE IF rule = "email"
    THEN [data EXCEPT !.personal_info = SetItem(@, "email", EmailValue(line))]
    ELSE IF rule = "content"
    THEN AppendContent(data, sec, line)
    ELSE data

---------------------------------------------------------------------------
(* print_resume and save_to_json *)

Render(data) ==
    <<PersonalHeader>>
    \o (IF "name" \in DOMAIN data.personal_info
        THEN <<NamePrefix \o data.personal_info["name"]>> ELSE <<>>)
    \o (IF "email" \in DOMAIN data.personal_info
        THEN <<EmailPrefix \o data.personal_info["email"]>> ELSE <<>>)
    \o <<EducationHeader>>
    \o [i \in 1..Len(data.education) |-> Bullet \o data.education[i]]
    \o <<WorkHeader>>
    \o [i \in 1..Len(data.work_experience) |-> Bullet \o data.work_experience[i]]
    \o <<SkillsHeader>>
    \o [i \in 1..Len(data.skills) |-> Bullet \o data.skills[i]]

\* json.dump(data, f, indent=4): the members of the object, in the order
\* the dict was built
JsonDump(data) ==
    << <<"personal_info", data.personal_info>>,
       <<"education", data.education>>,
       <<"work_experience", data.work_experience>>,
       <<"skills", data.skills>> >>

NoFile == [state |-> "absent", content |-> <<>>]

LogRecord(level, msg) == [level |-> level, msg |-> msg]

---------------------------------------------------------------------------
(* The run *)

Init ==
    /\ \/ input \in {"missing", "corrupt"} /\ pages = <<>>
       \/ input = "pdf" /\ pages \in AllPages
    /\ pc = "main"
    /\ text = <<>>
    /\ lines = <<>>
    /\ idx = 1
    /\ section = "none"
    /\ resume_data = InitialRecord
    /\ log = <<>>
    /\ calls = <<>>
    /\ stdout = <<>>
    /\ output_file = NoFile

\* main: os.path.isfile(args.file_path) is false
MainMissingFile ==
    /\ pc = "main"
    /\ input = "missing"
    /\ log' = Append(log, LogRecord("ERROR", "The provided file path does not exist."))
    /\ pc' = "returned"
    /\ UNCHANGED <<input, pages, text, lines, idx, section, resume_data,
                   calls, stdout, output_file>>

\* variant: parse_pdf_resume is called without the isfile test
MainCallParseUnchecked ==
    /\ pc = "main"
    /\ calls' = Append(calls, "parse_pdf_resume")
    /\ resume_data' = InitialRecord
    /\ pc' = "extract"
    /\ UNCHANGED <<input, pages, text, lines, idx, section, log, stdout,
                   output_file>>

\* main: the file exists, parse_pdf_resume is called and builds its record
MainCallParse ==
    /\ pc = "main"
    /\ input # "missing"
    /\ calls' = Append(calls, "parse_pdf_resume")
    /\ resume_data' = InitialRecord
    /\ pc' = "extract"
    /\ UNCHANGED <<input, pages, text, lines, idx, section, log, stdout,
                   output_file>>

\* the with block: the text of the pages is joined
ExtractOk ==
    /\ pc = "extract"
    /\ input = "pdf"
    /\ text' = ExtractText(pages)
    /\ pc' = "check_text"
    /\ UNCHANGED <<input, pages, lines, idx, section, resume_data, log,
                   calls, stdout, output_file>>

\* the with block raises: the file cannot be opened or read as a PDF
ExtractRaises ==
    /\ pc = "extract"
    /\ input # "pdf"
    /\ pc' = "except_read"
    /\ UNCHANGED <<input, pages, text, lines, idx, section, resume_data, log,
                   calls, stdout, output_file>>

\* except Exception: log and re-raise; main has no handler
ExceptRead ==
    /\ pc = "except_read"
    /\ log' = Append(log, LogRecord("ERROR", "Failed to read PDF file"))
    /\ pc' = "raised"
    /\ UNCHANGED <<input, pages, text, lines, idx, section, resume_data,
                   calls, stdout, output_file>>

\* variant: the warning is logged and the scan goes on
CheckTextEmptyNoReturn ==
    /\ pc = "check_text"
    /\ text = <<>>
    /\ log' = Append(log, LogRecord("WARNING", "No text extracted from the resume."))
    /\ lines' = Split(text, Newline)
    /\ section' = "none"
    /\ idx' = 1
    /\ pc' = "scan"
    /\ UNCHANGED <<input, pages, text, resume_data, calls, stdout,
                   output_file>>

\* if not text: warn and return the record as built
CheckTextEmpty ==
    /\ pc = "check_text"
    /\ text = <<>>
    /\ log' = Append(log, LogRecord("WARNING", "No text extracted from the resume."))
    /\ pc' = "print"
    /\ UNCHANGED <<input, pages, text, lines, idx, section, resume_data,
                   calls, stdout, output_file>>

\* lines = text.split("\n"); section = None
CheckTextSplit ==
    /\ pc = "check_text"
    /\ text # <<>>
    /\ lines' = Split(text, Newline)
    /\ section' = InitialSection
    /\ idx' = 1
    /\ pc' = "scan"
    /\ UNCHANGED <<input, pages, text, resume_data, log, calls, stdout,
                   output_file>>

\* one iteration of for line in lines
ScanLine ==
    /\ pc = "scan"
    /\ idx <= Len(lines)
    /\ LET line == Strip(lines[idx])
           rule == Classify(line)
       IN  /\ resume_data' = NextData(rule, resume_data, section, line)
           /\ section' = NextSection(rule, section)
    /\ idx' = idx + 1
    /\ UNCHANGED <<input, pages, pc, text, lines, log, calls, stdout,
                   output_file>>

\* the loop is exhausted: return resume_data
ScanDone ==
    /\ pc = "scan"
    /\ idx > Len(lines)
    /\ pc' = "print"
    /\ UNCHANGED <<input, pages, text, lines, idx, section, resume_data, log,
                   calls, stdout, output_file>>

\* main: print_resume(resume_data)
PrintResume ==
    /\ pc = "print"
    /\ calls' = Append(calls, "print_resume")
    /\ stdout' = stdout \o Render(resume_data)
    /\ pc' = "save"
    /\ UNCHANGED <<input, pages, text, lines, idx, section, resume_data, log,
                   output_file>>

\* main: save_to_json(resume_data, args.output_file), the write succeeds
SaveOk ==
    /\ pc = "save"
    /\ calls' = Append(calls, "save_to_json")
    /\ output_file' = [state |-> "complete", content |-> JsonDump(resume_data)]
    /\ pc' = "log_saved"
    /\ UNCHANGED <<input, pages, text, lines, idx, section, resume_data, log,
                   stdout>>

\* save_to_json: open() or json.dump() raises IOError; the file is left
\* as it was or holds a part of the output
SaveRaises ==
    /\ pc = "save"
    /\ calls' = Append(calls, "save_to_json")
    /\ \/ output_file' = output_file
       \/ output_file' = [state |-> "partial", content |-> <<>>]
    /\ pc' = "except_write"
    /\ UNCHANGED <<input, pages, text, lines, idx, section, resume_data, log,
                   stdout>>

\* variant: the error is logged and not re-raised
ExceptWriteSwallow ==
    /\ pc = "except_write"
    /\ log' = Append(log, LogRecord("ERROR", "Failed to write JSON file"))
    /\ pc' = "log_saved"
    /\ UNCHANGED <<input, pages, text, lines, idx, section, resume_data,
                   calls, stdout, output_file>>

\* except IOError: log and re-raise; main has no handler
ExceptWrite ==
    /\ pc = "except_write"
    /\ log' = Append(log, LogRecord("ERROR", "Failed to write JSON file"))
    /\ pc' = "raised"
    /\ UNCHANGED <<input, pages, text, lines, idx, section, resume_data,
                   calls, stdout, output_file>>

\* main: logging.info after save_to_json returned
LogSaved ==
    /\ pc = "log_saved"
    /\ log' = Append(log, LogRecord("INFO", "Resume data saved"))
    /\ pc' = "returned"
    /\ UNCHANGED <<input, pages, text, lines, idx, section, resume_data,
                   calls, stdout, output_file>>

Next ==
    \/ MainMissingFile
    \/ MainCallParse
    \/ ExtractOk
    \/ ExtractRaises
    \/ ExceptRead
    \/ CheckTextEmpty
    \/ CheckTextSplit
    \/ ScanLine
    \/ ScanDone
    \/ PrintResume
    \/ SaveOk
    \/ SaveRaises
    \/ ExceptWrite
    \/ LogSaved

Spec == Init /\ [][Next]_vars

---------------------------------------------------------------------------
(* Vocabulary of the properties *)

\* the five label substrings, in the priority order of the rules
Labels == <<NameLabel, EmailLabel, EducationLabel, ExperienceLabel, SkillsLabel>>
Sections == {"education", "work_experience", "skills"}
SectionOfLabel == [i \in 3..5 |-> <<"", "", "education", "work_experience", "skills">>[i]]

IsLabelLine(l) == \E i \in 1..5 : Contains(Labels[i], l)

\* the highest-priority label a label line contains
TopLabel(l) ==
    CHOOSE i \in 1..5 :
        /\ Contains(Labels[i], l)
        /\ \A j \in 1..(i - 1) : ~Contains(Labels[j], l)

IsHeader(l) == IsLabelLine(l) /\ TopLabel(l) \in 3..5

\* a step of the line scan is about to process lines[idx]
Scanning == pc = "scan" /\ idx <= Len(lines)

\* parse_pdf_resume has returned its record to main
Parsed == pc \in {"print", "save", "except_write", "log_saved", "returned"}
              /\ calls # <<>>

ListsOf(data) == [s \in Sections |-> data[s]]

HasLevel(level) == \E k \in 1..Len(log) : log[k].level = level

Count(f, seq) == Cardinality({k \in 1..Len(seq) : seq[k] = f})

---------------------------------------------------------------------------
(* C1 *)

\* the effect of the rule of label i on a step of the scan
RuleEffect(i) ==
    LET pi == resume_data.personal_info
        key == IF i = 1 THEN "name" ELSE "email"
    IN  IF i \in 1..2
        THEN /\ section' = section
             /\ ListsOf(resume_data') = ListsOf(resume_data)
             /\ DOMAIN resume_data'.personal_info = (DOMAIN pi) \cup {key}
             /\ \A k \in (DOMAIN pi) \ {key} :
                    resume_data'.personal_info[k] = pi[k]
        ELSE /\ section' = SectionOfLabel[i]
             /\ resume_data' = resume_data

ContentEffect ==
    /\ section' = section
    /\ resume_data'.personal_info = resume_data.personal_info

PriorityStep ==
    Scanning =>
        LET l == Strip(lines[idx])
        IN  IF IsLabelLine(l) THEN RuleEffect(TopLabel(l)) ELSE ContentEffect

\* C1: every step of the line scan has the effect of exactly one rule, the
\* one of the highest-priority label the trimmed line contains (Name: >
\* Email: > Education > Experience > Skills), or of the content rule when
\* the line contains no label; a Name: or Email: line leaves the section and
\* the lists alone, a section line leaves the record alone.
C1_FirstMatchWins == [][PriorityStep]_vars

\* a line holding both Education and Skills (and neither Name: nor Email:)
\* was scanned while another section was current and switched to education
C1_Witness ==
    /\ pc = "scan"
    /\ idx > 2
    /\ Contains(EducationLabel, lines[idx - 1])
    /\ Contains(SkillsLabel, lines[idx - 1])
    /\ ~Contains(NameLabel, lines[idx - 1])
    /\ ~Contains(EmailLabel, lines[idx - 1])
    /\ Classify(Strip(lines[idx - 2])) = "work_experience"
    /\ section = "education"

---------------------------------------------------------------------------
(* C2 *)

\* the section selected by the most recent section line before lines[i]
CurrentAt(i) ==
    LET hs == {j \in 1..(i - 1) : IsHeader(Strip(lines[j]))}
    IN  IF hs = {} THEN "none"
        ELSE LET last == CHOOSE j \in hs : \A k \in hs : k <= j
             IN  SectionOfLabel[TopLabel(Strip(lines[last]))]

\* the trimmed lines among the first n that hold no label and were scanned
\* while sec was current, in document order
ExpectedList(sec, n) ==
    LET Keep(i) == ~IsLabelLine(Strip(lines[i])) /\ CurrentAt(i) = sec
        ks == SelectSeq([i \in 1..n |-> i], Keep)
    IN  [k \in 1..Len(ks) |-> Strip(lines[ks[k]])]

\* C2: at every point of the run each of education, work_experience and
\* skills is, in document order, the sequence of the trimmed lines scanned
\* so far that hold no label and were met while that section was current;
\* a line met before any section line is in no list.
C2_ListsAreSectionContent ==
    \A sec \in Sections : resume_data[sec] = ExpectedList(sec, idx - 1)

\* the run on "Education\nBS Computer Science\nExperience\nEngineer at Acme"
C2_Witness ==
    /\ pc = "returned"
    /\ text = SampleSections
    /\ resume_data.education =
         << <<"B", "S", " ", "C", "o", "m", "p", "u", "t", "e", "r", " ", "S", "c", "i", "e", "n", "c", "e">> >>
    /\ resume_data.work_experience =
         << <<"E", "n", "g", "i", "n", "e", "e", "r", " ", "a", "t", " ", "A", "c", "m", "e">> >>
    /\ resume_data.skills = <<>>

---------------------------------------------------------------------------
(* C3 *)

NoLabelStored ==
    \A sec \in Sections :
        \A k \in 1..Len(resume_data[sec]) : ~IsLabelLine(resume_data[sec][k])

LabelStepKeepsLists ==
    (Scanning /\ IsLabelLine(lines[idx])) =>
        ListsOf(resume_data') = ListsOf(resume_data)

\* C3: no entry of education, work_experience or skills ever contains one
\* of the five label substrings, and a step of the scan on a label line
\* leaves the three lists as they were.
C3_LabelsNeverStored == []NoLabelStored /\ [][LabelStepKeepsLists]_vars

\* a label line was scanned while a section with content was current
C3_Witness ==
    /\ pc = "scan"
    /\ idx > 3
    /\ section = "skills"
    /\ Contains(SkillsLabel, lines[idx - 1])
    /\ resume_data.education # <<>>

---------------------------------------------------------------------------
(* C4 *)

\* C4: when no line of the extracted text contains a label, the record
\* parse_pdf_resume returns is the all-empty record.
C4_NoLabelsGivesEmptyRecord ==
    (Parsed /\ \A i \in 1..Len(lines) : ~IsLabelLine(lines[i]))
        => resume_data = InitialRecord

\* a text of several lines, none blank-only, without a label was parsed
C4_Witness ==
    /\ Parsed
    /\ Len(lines) >= 2
    /\ \A i \in 1..Len(lines) : ~IsLabelLine(lines[i])
    /\ \E i \in 1..Len(lines) : Strip(lines[i]) # <<>>
    /\ resume_data = InitialRecord

---------------------------------------------------------------------------
(* C5 *)

\* C5: a run on a path that names no file never calls parse_pdf_resume,
\* print_resume or save_to_json, prints nothing, writes no output file,
\* logs no success line and never raises; once over, it has returned from
\* main with exactly one log line, an ERROR.
C5_MissingFileStopsCleanly ==
    input = "missing" =>
        /\ pc \in {"main", "returned"}
        /\ calls = <<>>
        /\ stdout = <<>>
        /\ output_file = NoFile
        /\ ~HasLevel("INFO")
        /\ pc = "returned" => (Len(log) = 1 /\ log[1].level = "ERROR")

C5_Witness == input = "missing" /\ pc = "returned" /\ HasLevel("ERROR")

---------------------------------------------------------------------------
(* C6 *)

\* the PDF opens and no page yields text
NoTextExtracted ==
    /\ input = "pdf"
    /\ \A i \in 1..Len(pages) : pages[i].none \/ pages[i].text = <<>>

EmptyStdout == <<PersonalHeader, EducationHeader, WorkHeader, SkillsHeader>>
EmptyJson ==
    << <<"personal_info", <<>> >>, <<"education", <<>> >>,
       <<"work_experience", <<>> >>, <<"skills", <<>> >> >>

\* C6: when the PDF opens and no page yields text, the line scan never
\* runs, the record stays the initial all-empty record, the first log line
\* is a WARNING, and nothing but a failure of the write makes the run log
\* an ERROR or raise: the empty record is printed, and when the write
\* succeeds it is what the output file holds and the success line is logged.
C6_EmptyExtractionIsNotAnError ==
    NoTextExtracted =>
        /\ pc # "scan" /\ lines = <<>> /\ idx = 1 /\ section = "none"
        /\ resume_data = InitialRecord
        /\ pc \notin {"main", "extract", "check_text"} =>
               (log # <<>> /\ log[1].level = "WARNING")
        /\ \A k \in 1..Len(log) :
               log[k].level = "ERROR" => log[k].msg = "Failed to write JSON file"
        /\ pc \notin {"except_read"}
        /\ pc \in {"raised", "except_write"} =>
               (Count("save_to_json", calls) = 1 /\ output_file.state # "complete")
        /\ pc \in {"save", "except_write", "log_saved", "returned", "raised"} =>
               stdout = EmptyStdout
        /\ pc \in {"log_saved", "returned"} =>
               output_file = [state |-> "complete", content |-> EmptyJson]
        /\ pc = "returned" =>
               (Len(log) = 2 /\ log[2].level = "INFO"
                  /\ calls = <<"parse_pdf_resume", "print_resume", "save_to_json">>)

\* a PDF with pages, none of which yields text, was run to the success line
C6_Witness ==
    /\ NoTextExtracted
    /\ Len(pages) >= 2
    /\ \E i \in 1..Len(pages) : pages[i].none
    /\ pc = "returned"
    /\ HasLevel("WARNING") /\ HasLevel("INFO")

---------------------------------------------------------------------------
(* C7 *)

ReadFailed == pc = "except_read" \/ (pc = "raised" /\ ~("save_to_json" \in {calls[k] : k \in 1..Len(calls)}))
WriteFailed == pc = "except_write" \/ (pc = "raised" /\ "save_to_json" \in {calls[k] : k \in 1..Len(calls)})

FailuresAreFatal ==
    /\ \A f \in {"parse_pdf_resume", "print_resume", "save_to_json"} :
           Count(f, calls) <= 1
    /\ pc = "raised" => (log # <<>> /\ log[Len(log)].level = "ERROR")
    /\ (ReadFailed \/ WriteFailed) => ~HasLevel("INFO")
    /\ input = "corrupt" =>
           /\ pc \in {"main", "extract", "except_read", "raised"}
           /\ stdout = <<>>
           /\ output_file = NoFile
           /\ Count("print_resume", calls) = 0
           /\ Count("save_to_json", calls) = 0
    /\ HasLevel("ERROR") => pc \in {"returned", "raised"}
    /\ (HasLevel("ERROR") /\ pc = "returned") => input = "missing"

\* a caught failure is logged as an ERROR and re-raised in the next step
HandlerStep ==
    pc \in {"except_read", "except_write"} =>
        /\ pc' = "raised"
        /\ log' = Append(log, log'[Len(log')])
        /\ log'[Len(log')].level = "ERROR"
        /\ calls' = calls /\ stdout' = stdout /\ output_file' = output_file

\* nothing runs once the failure has left main
RaisedIsFinal == pc # "raised"

\* C7: an extraction failure and a write failure are each met at most once
\* (no function is called twice), are followed at once by an ERROR log line
\* and the end of the run by an unhandled exception; after an extraction
\* failure nothing is printed and no file is written, after a write failure
\* no success line is logged.
C7_FailuresLoggedAndFatal ==
    []FailuresAreFatal /\ [][HandlerStep]_vars /\ [][RaisedIsFinal]_vars

C7_Witness ==
    /\ pc = "raised"
    /\ WriteFailed
    /\ stdout # <<>>
    /\ resume_data.skills # <<>>
    /\ log[Len(log)] = LogRecord("ERROR", "Failed to write JSON file")

\* the run on an unreadable PDF ended by the re-raised exception
C7_WitnessRead ==
    /\ pc = "raised"
    /\ input = "corrupt"
    /\ log = <<LogRecord("ERROR", "Failed to read PDF file")>>

---------------------------------------------------------------------------
(* C8 *)

\* new is old, or old with one entry appended at the end
SameOrAppended(old, new) ==
    \/ new = old
    \/ Len(new) = Len(old) + 1 /\ SubSeq(new, 1, Len(old)) = old

GrowOnlyStep ==
    /\ \A sec \in Sections : SameOrAppended(resume_data[sec], resume_data'[sec])
    /\ DOMAIN resume_data' = DOMAIN resume_data
    /\ pc # "scan" => resume_data' = resume_data

\* C8: in every step of the run each of education, work_experience and
\* skills keeps its value or gets one entry appended at its end, the record
\* keeps its four fields, and only a step of the line scan changes the
\* record: print_resume, save_to_json and the steps after them leave it
\* as parse_pdf_resume returned it.
C8_RecordGrowsThenFrozen == [][GrowOnlyStep]_vars

\* a record with a list of two different entries went through both sinks
C8_Witness ==
    /\ pc = "returned"
    /\ output_file.state = "complete"
    /\ stdout # <<>>
    /\ \E sec \in Sections :
          /\ Len(resume_data[sec]) >= 2
          /\ resume_data[sec][1] # resume_data[sec][2]

---------------------------------------------------------------------------
(* C9 *)

IsBlank(l) == \A k \in 1..Len(l) : l[k] \in Whitespace

BlankLineStep ==
    (Scanning /\ IsBlank(lines[idx])) =>
        IF section \in Sections
        THEN /\ resume_data'[section] = Append(resume_data[section], <<>>)
             /\ \A sec \in Sections \ {section} :
                    resume_data'[sec] = resume_data[sec]
        ELSE resume_data' = resume_data

\* C9: a step of the scan on a line that is empty or holds only whitespace
\* appends the empty string to the list of the current section, and changes
\* nothing of the record when no section is current.
C9_BlankLinesAreStored == [][BlankLineStep]_vars

\* the text ended in a newline inside a section: the empty last element of
\* the split was stored after the content line
C9_Witness ==
    /\ pc = "returned"
    /\ text # <<>>
    /\ text[Len(text)] = "\n"
    /\ lines[Len(lines)] = <<>>
    /\ resume_data.education = << <<"x">>, <<>> >>

---------------------------------------------------------------------------
(* C10 *)

\* the lines among the first n that the Name: rule, resp. the Email: rule, takes
NameLines(n) == {i \in 1..n : Contains(NameLabel, lines[i])}
EmailLines(n) ==
    {i \in 1..n : Contains(EmailLabel, lines[i]) /\ ~Contains(NameLabel, lines[i])}

Last(S) == CHOOSE i \in S : \A j \in S : j <= i

\* the line without its surrounding whitespace and without the label,
\* without its surrounding whitespace
Remainder(l, label) == Strip(Replace(Strip(l), label, <<>>))

FieldIsLastAssignment(key, S, label) ==
    /\ key \in DOMAIN resume_data.personal_info <=> S # {}
    /\ S # {} =>
         resume_data.personal_info[key] = Remainder(lines[Last(S)], label)

\* C10: at every point of the run, name is a key of personal_info exactly
\* when a line scanned so far contained "Name:", and its value is then the
\* remainder of the last such line; likewise email and the lines scanned
\* so far that contained "Email:" and not "Name:"; personal_info has no
\* other key.
C10_PersonalInfoIsLastLabelLine ==
    /\ FieldIsLastAssignment("name", NameLines(idx - 1), NameLabel)
    /\ FieldIsLastAssignment("email", EmailLines(idx - 1), EmailLabel)
    /\ DOMAIN resume_data.personal_info \subseteq {"name", "email"}

\* the run on "Name: Jane Doe\nEmail: jane@x.com"
C10_Witness ==
    /\ pc = "returned"
    /\ text = SampleContact
    /\ resume_data =
         [ personal_info |->
             [ name |-> <<"J", "a", "n", "e", " ", "D", "o", "e">>,
               email |-> <<"j", "a", "n", "e", "@", "x", ".", "c", "o", "m">> ],
           education |-> <<>>,
           work_experience |-> <<>>,
           skills |-> <<>> ]

\* a later Name: line overwrote the value of an earlier one
C10_WitnessOverwrite ==
    /\ pc = "returned"
    /\ Cardinality(NameLines(Len(lines))) = 2
    /\ resume_data.personal_info["name"] = <<"x">>
    /\ Remainder(lines[1], NameLabel) = <<>>

=============================================================================
